---- MODULE Spec2Model ----
(***************************************************************************)
(* State-machine model of the KILIAI App component (src/unnamed/part_000): *)
(* the recording pipeline (startRecording / stopRecording and the live     *)
(* session callbacks), the one-shot file path (handleFileUpload) and the   *)
(* React state they drive.                                                 *)
(*                                                                         *)
(* Scheduling follows the JavaScript event loop: every action is one task  *)
(* (a user event, a browser or network callback) or one promise            *)
(* continuation (a microtask).  Tasks are taken only when no continuation  *)
(* is runnable (MicrotaskReady), so continuations run to completion before *)
(* the next task, as in the browser.                                       *)
(***************************************************************************)
EXTENDS Integers, Sequences, FiniteSets

\* ------------------------------------------------------------------ bounds
\* A run is explored under one of three budgets (profile, fixed by Init):
\* recording episodes (getUserMedia grants) of a run without transcript text,
MaxSessions == 3
\* of a run whose messages carry transcript text,
MaxTextSessions == 2
\* and of a run that also uploads files.
MaxFileSessions == 1
\* Frame-send continuations that may be waiting on a session promise.
MaxFrames == 1
\* Records the history may hold before text stops arriving.
MaxHist == 1
\* Failures the environment may inject in one run (denied microphone, failed
\* construction, rejected connection, session error, failed file request).
MaxFaults == 1
\* Characters a transcript accumulator may hold before text stops arriving.
MaxLen == 1
\* Samples in one audio buffer.
MaxSamples == 2

Ids == 1..MaxSessions
\* stopRecording invocations that may be suspended at an await at once.
Slots == 1..MaxSessions

\* ------------------------------------------------------------------- texts
\* A string is a sequence of characters; " " is the whitespace character.
Empty == <<>>
\* The (input, output) transcription texts one message may carry.
MessageTexts == {<<Empty, Empty>>, <<<<"a">>, Empty>>, <<<<" ">>, Empty>>,
                 <<Empty, <<"a">>>>}
\* The {transcription, translation} pairs a file response may parse to.
FileResponses == {<<Empty, Empty>>, <<<<" ">>, Empty>>, <<<<"a">>, <<"a">>>>}

\* String.prototype.trim() === '' : only whitespace (or nothing) in t.
IsBlank(t) == \A i \in 1..Len(t) : t[i] = " "
\* JavaScript truthiness of a string: non-empty.
Truthy(t) == t # Empty

HistoryRecord(u, t) == [user |-> u, translation |-> t]

Profiles ==
  { [episodes |-> MaxSessions, text |-> FALSE, files |-> FALSE],
    [episodes |-> MaxTextSessions, text |-> TRUE, files |-> FALSE],
    [episodes |-> MaxFileSessions, text |-> TRUE, files |-> TRUE] }

VARIABLES
  \* React state (useState)
  isRecording, isConnecting, isProcessingFile,
  userTranscript, malayalamTranslation, history, error,
  \* the setHistory updaters React has queued and not yet evaluated
  pending,
  \* refs (useRef); 0 is null, otherwise the id of the object held
  sessionPromiseRef, streamRef, audioContextRef, scriptProcessorRef,
  currentInputTranscriptionRef, currentOutputTranscriptionRef,
  \* browser / network objects, indexed by the episode that created them
  sess, stream, ctx, proc, capturedIsRecording, nextId, sentOn, faults,
  \* control state: suspended invocations and continuations
  starts, stops, frames, fileCall, mounted, profile,
  \* the buffer handed to the audio callback and the blob made from it
  inputData, pcmBlob,
  \* observation: the stop call being followed
  obs

uiVars == <<isRecording, isConnecting, isProcessingFile, userTranscript,
            malayalamTranslation, history, error, pending>>
refVars == <<sessionPromiseRef, streamRef, audioContextRef, scriptProcessorRef,
             currentInputTranscriptionRef, currentOutputTranscriptionRef>>
envVars == <<sess, stream, ctx, proc, capturedIsRecording, nextId, sentOn, faults>>
audioVars == <<inputData, pcmBlob>>
ctlVars == <<starts, stops, frames, fileCall, mounted, profile, audioVars>>
obsVars == <<obs>>
vars == <<uiVars, refVars, envVars, ctlVars, obsVars>>

\* ---------------------------------------------------------- observation
ObsNone == [ph |-> "none", slot |-> 0, by |-> "none", inp |-> Empty,
            out |-> Empty, base |-> <<>>, row |-> FALSE]
FreeStop == [pc |-> "free", on |-> 0]

\* The component after its first render.
AppInit ==
  /\ isRecording = FALSE /\ isConnecting = FALSE /\ isProcessingFile = FALSE
  /\ userTranscript = Empty /\ malayalamTranslation = Empty
  /\ history = <<>> /\ error = "null" /\ pending = <<>>
  /\ sessionPromiseRef = 0 /\ streamRef = 0
  /\ audioContextRef = 0 /\ scriptProcessorRef = 0
  /\ currentInputTranscriptionRef = Empty
  /\ currentOutputTranscriptionRef = Empty
  /\ sess = [i \in Ids |-> [st |-> "none", pr |-> "pending"]]
  /\ stream = [i \in Ids |-> "none"]
  /\ ctx = [i \in Ids |-> "none"]
  /\ proc = [i \in Ids |-> "none"]
  /\ capturedIsRecording = [i \in Ids |-> FALSE]
  /\ nextId = 1 /\ sentOn = {} /\ faults = 0
  /\ starts = <<>> /\ stops = [k \in Slots |-> FreeStop]
  /\ frames = <<>> /\ fileCall = "idle" /\ mounted = TRUE
  /\ profile \in Profiles
  /\ obs = [ObsNone EXCEPT !.ph = "fresh"]

\* No audio buffer has been delivered.
NoBlob == [data |-> <<>>, mimeType |-> "none"]

Init == AppInit /\ inputData = <<>> /\ pcmBlob = NoBlob

\* The history has room for more: new text, episodes and uploads are taken.
HistoryHasRoom == Len(history) + Len(pending) < MaxHist

\* The environment injects one more failure.
Fault == faults < MaxFaults /\ faults' = faults + 1

\* ------------------------------------------------------------ scheduling
\* A stopRecording invocation suspended at `await audioContext.close()`
\* (line 56) or at `await sessionPromiseRef.current` (line 62) can resume.
StopReady(k) ==
  \/ stops[k].pc = "ctx" /\ ctx[stops[k].on] = "closed"
  \/ stops[k].pc = "sess" /\ sess[stops[k].on].pr # "pending"

\* The .then/.catch attached at line 105 can run: its promise has settled.
FrameReady(i) == sess[frames[i].on].pr # "pending"

MicrotaskReady ==
  \/ \E k \in Slots : StopReady(k)
  \/ \E i \in 1..Len(frames) : FrameReady(i)

NoStopInFlight == \A k \in Slots : stops[k].pc = "free"
HasFreeSlot == \E k \in Slots : stops[k].pc = "free"
FreeSlot == CHOOSE k \in Slots :
              stops[k].pc = "free" /\ \A j \in Slots : j < k => stops[j].pc # "free"

\* A handler other than stopRecording ran: the followed stop call is no
\* longer undisturbed, and the next stop call is not "in a row" (obs.ph is
\* "fresh" before any handler has run and "done" right after a followed
\* stop has finished).
Disturb == obs' = ObsNone

\* ------------------------------------------------- setHistory and render
\* setHistory(prev => [...prev, {user: fullInput, translation: fullOutput}])
\* with values already copied out of the refs (lines 134, 230).
ValueUpdate(u, t) == [lazy |-> FALSE, user |-> u, translation |-> t]
\* The updater of line 71 reads the two refs when React evaluates it.
RefUpdate == [lazy |-> TRUE, user |-> Empty, translation |-> Empty]

\* React evaluates an updater at once only when no update is queued.
EagerPossible == pending = <<>>

Evaluate(u) ==
  IF u.lazy
    THEN HistoryRecord(currentInputTranscriptionRef, currentOutputTranscriptionRef)
    ELSE HistoryRecord(u.user, u.translation)

\* An updater that puts the new records in front: [record, ...prev].
PutInFront(prev, records) == records \o prev

\* The updaters of lines 71, 134 and 230: [...prev, record].
PutBehind(prev, records) == prev \o records

\* React processes the queued updaters, in order, in its next render.
Render ==
  /\ ~MicrotaskReady
  /\ pending # <<>>
  /\ history' = PutBehind(history, [i \in 1..Len(pending) |-> Evaluate(pending[i])])
  /\ pending' = <<>>
  /\ UNCHANGED <<isRecording, isConnecting, isProcessingFile, userTranscript,
                 malayalamTranslation, error, refVars, envVars, ctlVars, obs>>

\* ----------------------------------------------------------- stopRecording
\* Line 70: the commit test is JavaScript truthiness of the two refs.
Committable ==
  Truthy(currentInputTranscriptionRef) \/ Truthy(currentOutputTranscriptionRef)

\* Line 71: the update stopRecording queues (eager: React evaluates the
\* updater inside the setHistory call, otherwise at the next render).
StopCommit(eager) ==
  IF Committable
    THEN Append(pending,
                IF eager
                  THEN ValueUpdate(currentInputTranscriptionRef,
                                   currentOutputTranscriptionRef)
                  ELSE RefUpdate)
    ELSE pending

\* Lines 70-76.
StopTail(eager) ==
  /\ eager => EagerPossible
  /\ pending' = StopCommit(eager)
  /\ userTranscript' = Empty
  /\ malayalamTranslation' = Empty
  /\ currentInputTranscriptionRef' = Empty
  /\ currentOutputTranscriptionRef' = Empty

tailVars == <<pending, userTranscript, malayalamTranslation,
              currentInputTranscriptionRef, currentOutputTranscriptionRef>>

\* Lines 50-53: the processor is released only if both refs are set.
ReleasesProcessor == scriptProcessorRef # 0 /\ audioContextRef # 0

\* Where the synchronous part of stopRecording (lines 42-60) ends:
\* "ctx"  suspended at await audioContext.close()            (line 56)
\* "abort" close() of a context already being closed rejects (line 56)
\* "sess" suspended at await sessionPromiseRef.current       (line 62)
\* "tail" ran to the end                                     (line 76)
\* closedSeen: whether `state` of a context whose close() is in progress
\* already reads 'closed' (browsers differ).
StopOutcome(closedSeen) ==
  IF audioContextRef # 0 /\ ctx[audioContextRef] = "running" THEN "ctx"
  ELSE IF audioContextRef # 0 /\ ctx[audioContextRef] = "closing" /\ ~closedSeen
    THEN "abort"
  ELSE IF sessionPromiseRef # 0 THEN "sess"
  ELSE "tail"

\* A call of stopRecording by `by`, up to its first suspension.
StopCall(by, closedSeen, eager) ==
  LET outcome == StopOutcome(closedSeen)
      slot == FreeSlot
      track == NoStopInFlight /\ pending = <<>>
  IN
  /\ HasFreeSlot
  /\ isRecording' = FALSE
  /\ isConnecting' = FALSE
  /\ stream' = IF streamRef # 0 THEN [stream EXCEPT ![streamRef] = "stopped"]
                                ELSE stream
  /\ streamRef' = 0
  /\ proc' = IF ReleasesProcessor
               THEN [proc EXCEPT ![scriptProcessorRef] = "disconnected"]
               ELSE proc
  /\ scriptProcessorRef' = IF ReleasesProcessor THEN 0 ELSE scriptProcessorRef
  /\ ctx' = IF outcome = "ctx" THEN [ctx EXCEPT ![audioContextRef] = "closing"]
                               ELSE ctx
  /\ UNCHANGED <<audioContextRef, sessionPromiseRef>>
  /\ stops' = IF outcome = "ctx"
                THEN [stops EXCEPT ![slot] = [pc |-> "ctx", on |-> audioContextRef]]
              ELSE IF outcome = "sess"
                THEN [stops EXCEPT ![slot] = [pc |-> "sess", on |-> sessionPromiseRef]]
              ELSE stops
  /\ IF outcome = "tail" THEN StopTail(eager)
                         ELSE ~eager /\ UNCHANGED tailVars
  /\ obs' = IF track
              THEN [ph |-> IF outcome = "tail" THEN "done"
                           ELSE IF outcome = "abort" THEN "abort" ELSE "run",
                    slot |-> IF outcome \in {"ctx", "sess"} THEN slot ELSE 0,
                    by |-> by,
                    inp |-> currentInputTranscriptionRef,
                    out |-> currentOutputTranscriptionRef,
                    base |-> history,
                    row |-> obs.ph \in {"fresh", "done"}]
              ELSE ObsNone

\* After `await audioContext.close()`: lines 57-76.
StopAfterCtx(k, eager) ==
  /\ stops[k].pc = "ctx" /\ ctx[stops[k].on] = "closed"
  /\ audioContextRef' = 0
  /\ IF sessionPromiseRef # 0
       THEN /\ stops' = [stops EXCEPT ![k] = [pc |-> "sess", on |-> sessionPromiseRef]]
            /\ ~eager
            /\ UNCHANGED <<tailVars, obs>>
       ELSE /\ stops' = [stops EXCEPT ![k] = FreeStop]
            /\ StopTail(eager)
            /\ obs' = IF obs.ph = "run" /\ obs.slot = k
                        THEN [obs EXCEPT !.ph = "done", !.slot = 0] ELSE obs
  /\ UNCHANGED <<isRecording, isConnecting, isProcessingFile, history, error,
                 sessionPromiseRef, streamRef, scriptProcessorRef,
                 envVars, starts, frames, fileCall, mounted, profile, audioVars>>

\* After `await sessionPromiseRef.current`: lines 63-76.
StopAfterSession(k, eager) ==
  LET s == stops[k].on IN
  /\ stops[k].pc = "sess" /\ sess[s].pr # "pending"
  /\ sess' = IF sess[s].pr = "resolved" THEN [sess EXCEPT ![s].st = "closed"]
                                        ELSE sess
  /\ sessionPromiseRef' = 0
  /\ stops' = [stops EXCEPT ![k] = FreeStop]
  /\ StopTail(eager)
  /\ frames' = [i \in 1..Len(frames) |-> [frames[i] EXCEPT !.cleared = TRUE]]
  /\ obs' = IF obs.ph = "run" /\ obs.slot = k
              THEN [obs EXCEPT !.ph = "done", !.slot = 0] ELSE obs
  /\ UNCHANGED <<isRecording, isConnecting, isProcessingFile, history, error,
                 streamRef, audioContextRef, scriptProcessorRef,
                 stream, ctx, proc, capturedIsRecording, nextId, sentOn, faults,
                 starts, fileCall, mounted, profile, audioVars>>

\* ---------------------------------------------------------- startRecording
StartEnabled == mounted /\ ~isRecording /\ ~isConnecting /\ ~isProcessingFile

\* Lines 165-171 with isRecording false, then lines 81-87 up to the await.
\* The invocation keeps the isRecording of the render that created it.
ToggleStart ==
  /\ ~MicrotaskReady
  /\ StartEnabled
  /\ nextId + Len(starts) <= profile.episodes
  /\ HistoryHasRoom
  /\ isConnecting' = TRUE
  /\ error' = "null"
  /\ userTranscript' = Empty
  /\ malayalamTranslation' = Empty
  /\ starts' = Append(starts, isRecording)
  /\ Disturb
  /\ UNCHANGED <<isRecording, isProcessingFile, history, pending, refVars,
                 envVars, stops, frames, fileCall, mounted, profile, audioVars>>

\* Lines 165-171 with isRecording true: the user stops the recording.
ToggleStop ==
  /\ ~MicrotaskReady
  /\ mounted /\ isRecording /\ ~isConnecting /\ ~isProcessingFile
  /\ \E closedSeen, eager \in BOOLEAN : StopCall("user", closedSeen, eager)
  /\ UNCHANGED <<isProcessingFile, history, error, sess, capturedIsRecording,
                 nextId, sentOn, faults, starts, frames, fileCall, mounted, profile, audioVars>>

\* Lines 248-252: the effect's cleanup when the component is removed.
Unmount ==
  /\ ~MicrotaskReady
  /\ mounted
  /\ mounted' = FALSE
  /\ \E closedSeen, eager \in BOOLEAN : StopCall("unmount", closedSeen, eager)
  /\ UNCHANGED <<isProcessingFile, history, error, sess, capturedIsRecording,
                 nextId, sentOn, faults, starts, frames, fileCall, profile, audioVars>>

RemoveAt(q, i) == [j \in 1..(Len(q) - 1) |-> IF j < i THEN q[j] ELSE q[j + 1]]

\* The catch of startRecording without line 160: the flag is left set.
ConnectingAfterCatchKept == TRUE

\* Line 160: the catch of startRecording resets the connecting flag.
ConnectingAfterCatch == FALSE

\* getUserMedia rejects: lines 157-161.
StartMicDenied(i) ==
  /\ ~MicrotaskReady
  /\ i \in 1..Len(starts)
  /\ starts' = RemoveAt(starts, i)
  /\ error' = "mic"
  /\ isConnecting' = ConnectingAfterCatch
  /\ Fault
  /\ Disturb
  /\ UNCHANGED <<isRecording, isProcessingFile, userTranscript,
                 malayalamTranslation, history, pending, refVars, sess, stream, ctx, proc,
                 capturedIsRecording, nextId, sentOn,
                 stops, frames, fileCall, mounted, profile, audioVars>>

\* getUserMedia resolves and ai.live.connect is called: lines 87-93.
StartConnected(i) ==
  /\ ~MicrotaskReady
  /\ i \in 1..Len(starts)
  /\ starts' = RemoveAt(starts, i)
  /\ stream' = [stream EXCEPT ![nextId] = "live"]
  /\ streamRef' = nextId
  /\ isConnecting' = FALSE
  /\ isRecording' = TRUE
  /\ sess' = [sess EXCEPT ![nextId] = [st |-> "connecting", pr |-> "pending"]]
  /\ capturedIsRecording' = [capturedIsRecording EXCEPT ![nextId] = starts[i]]
  /\ sessionPromiseRef' = nextId
  /\ nextId' = nextId + 1
  /\ Disturb
  /\ UNCHANGED <<isProcessingFile, userTranscript, malayalamTranslation, history,
                 error, pending, audioContextRef, scriptProcessorRef,
                 currentInputTranscriptionRef, currentOutputTranscriptionRef,
                 ctx, proc, sentOn, faults, stops, frames, fileCall, mounted, profile, audioVars>>

\* getUserMedia resolves, then building the client or the session throws:
\* lines 87-91, then the catch of lines 157-161.
StartConstructFailed(i) ==
  /\ ~MicrotaskReady
  /\ i \in 1..Len(starts)
  /\ starts' = RemoveAt(starts, i)
  /\ stream' = [stream EXCEPT ![nextId] = "live"]
  /\ streamRef' = nextId
  /\ isRecording' = TRUE
  /\ error' = "mic"
  /\ isConnecting' = ConnectingAfterCatch
  /\ nextId' = nextId + 1
  /\ Fault
  /\ Disturb
  /\ UNCHANGED <<isProcessingFile, userTranscript, malayalamTranslation, history,
                 pending, sessionPromiseRef, audioContextRef, scriptProcessorRef,
                 currentInputTranscriptionRef, currentOutputTranscriptionRef,
                 sess, ctx, proc, capturedIsRecording, sentOn, stops, frames,
                 fileCall, mounted, profile, audioVars>>

\* ------------------------------------------------------ session callbacks
\* Line 98: createMediaStreamSource(streamRef.current!) throws on null.
OnOpenThrows == streamRef = 0

\* onopen, lines 96-118.  When it throws, whether the promise of connect
\* still resolves is the library's choice (resolves).
SessionOpen(s, resolves) ==
  /\ ~MicrotaskReady
  /\ sess[s].st = "connecting" /\ sess[s].pr = "pending"
  /\ audioContextRef' = s
  /\ ctx' = [ctx EXCEPT ![s] = "running"]
  /\ IF OnOpenThrows
       THEN /\ UNCHANGED <<scriptProcessorRef, proc>>
            /\ sess' = [sess EXCEPT ![s] = [st |-> "open",
                          pr |-> IF resolves THEN "resolved" ELSE "pending"]]
       ELSE /\ resolves
            /\ scriptProcessorRef' = s
            /\ proc' = [proc EXCEPT ![s] = "connected"]
            /\ sess' = [sess EXCEPT ![s] = [st |-> "open", pr |-> "resolved"]]
  /\ Disturb
  /\ UNCHANGED <<uiVars, sessionPromiseRef, streamRef,
                 currentInputTranscriptionRef, currentOutputTranscriptionRef,
                 stream, capturedIsRecording, nextId, sentOn, faults, ctlVars>>

\* The connection attempt fails and the promise of connect rejects.
ConnectReject(s) ==
  /\ ~MicrotaskReady
  /\ sess[s].st \in {"connecting", "failed"} /\ sess[s].pr = "pending"
  /\ Fault
  /\ sess' = [sess EXCEPT ![s] = [st |-> "failed", pr |-> "rejected"]]
  /\ UNCHANGED <<uiVars, refVars, stream, ctx, proc, capturedIsRecording, nextId, sentOn,
                 ctlVars, obs>>

\* Line 144: the message shown for an upstream error with (detail TRUE) or
\* without a message of its own.
SessionErrorText(detail) == IF detail THEN "session: boom" ELSE "session: Unknown error"

\* onerror, lines 142-146.  The connection is lost with the error.
SessionError(s, detail) ==
  /\ ~MicrotaskReady
  /\ sess[s].st \in {"connecting", "open"}
  /\ sess' = [sess EXCEPT ![s].st = IF sess[s].st = "open" THEN "closed" ELSE "failed"]
  /\ Fault
  /\ error' = SessionErrorText(detail)
  /\ \E closedSeen, eager \in BOOLEAN : StopCall("onerror", closedSeen, eager)
  /\ UNCHANGED <<isProcessingFile, history, capturedIsRecording, nextId, sentOn, starts,
                 frames, fileCall, mounted, profile, audioVars>>

\* The turn test without trim(): whitespace-only text would be committed.
TurnCommitsUntrimmed(fullInput, fullOutput) == Truthy(fullInput) \/ Truthy(fullOutput)

\* Lines 131-133: a turn is committed when either text has a non-whitespace
\* character.
TurnCommits(fullInput, fullOutput) == ~IsBlank(fullInput) \/ ~IsBlank(fullOutput)

\* onmessage, lines 119-141.  inp / out: the transcription texts the message
\* carries (Empty: none); tc: serverContent.turnComplete.
OnMessage(s, inp, out, tc) ==
  LET fullInput == currentInputTranscriptionRef \o inp
      fullOutput == currentOutputTranscriptionRef \o out
  IN
  /\ ~MicrotaskReady
  /\ sess[s].st = "open"
  /\ inp # Empty \/ out # Empty \/ tc
  /\ (inp # Empty \/ out # Empty) => profile.text /\ HistoryHasRoom
  /\ Len(fullInput) <= MaxLen /\ Len(fullOutput) <= MaxLen
  /\ IF tc
       THEN /\ pending' = IF TurnCommits(fullInput, fullOutput)
                            THEN Append(pending, ValueUpdate(fullInput, fullOutput))
                            ELSE pending
            /\ userTranscript' = Empty
            /\ malayalamTranslation' = Empty
            /\ currentInputTranscriptionRef' = Empty
            /\ currentOutputTranscriptionRef' = Empty
       ELSE /\ pending' = pending
            /\ userTranscript' = IF inp # Empty THEN fullInput ELSE userTranscript
            /\ malayalamTranslation' =
                 IF out # Empty THEN fullOutput ELSE malayalamTranslation
            /\ currentInputTranscriptionRef' = fullInput
            /\ currentOutputTranscriptionRef' = fullOutput
  /\ Disturb
  /\ UNCHANGED <<isRecording, isConnecting, isProcessingFile, history, error,
                 sessionPromiseRef, streamRef, audioContextRef, scriptProcessorRef,
                 envVars, ctlVars>>

\* The browser finishes closing an audio context: close() resolves.
CtxClosed(c) ==
  /\ ~MicrotaskReady
  /\ ctx[c] = "closing"
  /\ ctx' = [ctx EXCEPT ![c] = "closed"]
  /\ UNCHANGED <<uiVars, refVars, sess, stream, proc, capturedIsRecording, nextId, sentOn, faults,
                 ctlVars, obs>>

\* ------------------------------------------------------------ audio frames
\* The episode of session s is running: recording, s is the session held,
\* it is open, and no stop is under way.
EpisodeActive(s) ==
  /\ isRecording /\ sessionPromiseRef = s /\ NoStopInFlight
  /\ sess[s].st = "open" /\ sess[s].pr = "resolved"

\* onaudioprocess of the processor built by onopen of session q, lines
\* 101-115: the frame is encoded and a continuation is attached to the
\* promise held in sessionPromiseRef, if any.
AudioProcess(q) ==
  /\ ~MicrotaskReady
  /\ proc[q] = "connected" /\ ctx[q] = "running"
  /\ IF sessionPromiseRef # 0
       THEN /\ Len(frames) < MaxFrames
            /\ frames' = Append(frames,
                 [by |-> q, on |-> sessionPromiseRef, cap |-> capturedIsRecording[q],
                  live |-> EpisodeActive(sessionPromiseRef), cleared |-> FALSE])
       ELSE frames' = frames
  /\ UNCHANGED <<uiVars, refVars, envVars, starts, stops, fileCall, mounted, profile, audioVars,
                 obs>>

\* Line 106: the frame is sent when the isRecording captured by the closure
\* is true.
SendsFrame(f) == f.cap

\* The .then of lines 105-108 on a resolved session promise; sentOn records
\* the sessions sendRealtimeInput has been called on.
FrameThen(i) ==
  /\ i \in 1..Len(frames)
  /\ sess[frames[i].on].pr = "resolved"
  /\ frames' = RemoveAt(frames, i)
  /\ sentOn' = IF SendsFrame(frames[i]) THEN sentOn \cup {frames[i].on} ELSE sentOn
  /\ UNCHANGED <<uiVars, refVars, sess, stream, ctx, proc, capturedIsRecording,
                 nextId, faults, starts, stops, fileCall, mounted, profile, audioVars, obs>>

\* The .catch of lines 109-113 on a rejected session promise.
FrameCatch(i) ==
  /\ i \in 1..Len(frames)
  /\ sess[frames[i].on].pr = "rejected"
  /\ frames' = RemoveAt(frames, i)
  /\ error' = "send"
  /\ \E closedSeen, eager \in BOOLEAN : StopCall("sendfail", closedSeen, eager)
  /\ UNCHANGED <<isProcessingFile, history, sess, capturedIsRecording, nextId, sentOn, faults,
                 starts, fileCall, mounted, profile, audioVars>>

\* ------------------------------------------------------- handleFileUpload
\* Lines 186-193: a file is picked (the input is disabled while busy).
FileUploadCall ==
  /\ ~MicrotaskReady
  /\ mounted /\ ~isConnecting /\ ~isRecording /\ ~isProcessingFile
  /\ fileCall = "idle"
  /\ profile.files /\ HistoryHasRoom
  /\ fileCall' = "busy"
  /\ isProcessingFile' = TRUE
  /\ error' = "null"
  /\ userTranscript' = Empty
  /\ malayalamTranslation' = Empty
  /\ Disturb
  /\ UNCHANGED <<isRecording, isConnecting, history, pending, refVars, envVars,
                 starts, stops, frames, mounted, profile, audioVars>>

\* Line 229: the parsed result is accepted when either field is truthy.
FileAccepts(transcription, translation) == Truthy(transcription) \/ Truthy(translation)

\* Lines 226-245 for a response that parses to {transcription, translation}.
FileParsed(transcription, translation) ==
  /\ ~MicrotaskReady
  /\ fileCall = "busy"
  /\ IF FileAccepts(transcription, translation)
       THEN /\ pending' = Append(pending, ValueUpdate(transcription, translation))
            /\ userTranscript' = transcription
            /\ malayalamTranslation' = translation
            /\ error' = error
       ELSE /\ error' = "file: Received empty transcription/translation."
            /\ UNCHANGED <<pending, userTranscript, malayalamTranslation>>
  /\ isProcessingFile' = FALSE
  /\ fileCall' = "idle"
  /\ Disturb
  /\ UNCHANGED <<isRecording, isConnecting, history, refVars, envVars,
                 starts, stops, frames, mounted, profile, audioVars>>

\* Lines 196-227 throw (file read, request, or JSON.parse), lines 237-245.
FileFailed ==
  /\ ~MicrotaskReady
  /\ fileCall = "busy"
  /\ error' = "file: failed"
  /\ isProcessingFile' = FALSE
  /\ fileCall' = "idle"
  /\ Fault
  /\ Disturb
  /\ UNCHANGED <<isRecording, isConnecting, userTranscript, malayalamTranslation,
                 history, pending, refVars, sess, stream, ctx, proc,
                 capturedIsRecording, nextId, sentOn, starts, stops, frames, mounted, profile, audioVars>>

\* ------------------------------------------------------------------- Next
Next ==
  \/ ToggleStart
  \/ ToggleStop
  \/ Unmount
  \/ \E i \in 1..MaxSessions : StartMicDenied(i)
  \/ \E i \in 1..MaxSessions : StartConnected(i)
  \/ \E i \in 1..MaxSessions : StartConstructFailed(i)
  \/ \E s \in Ids, resolves \in BOOLEAN : SessionOpen(s, resolves)
  \/ \E s \in Ids : ConnectReject(s)
  \/ \E s \in Ids, detail \in BOOLEAN : SessionError(s, detail)
  \/ \E s \in Ids, m \in MessageTexts, tc \in BOOLEAN : OnMessage(s, m[1], m[2], tc)
  \/ \E c \in Ids : CtxClosed(c)
  \/ \E q \in Ids : AudioProcess(q)
  \/ \E i \in 1..MaxFrames : FrameThen(i)
  \/ \E i \in 1..MaxFrames : FrameCatch(i)
  \/ \E k \in Slots, eager \in BOOLEAN : StopAfterCtx(k, eager)
  \/ \E k \in Slots, eager \in BOOLEAN : StopAfterSession(k, eager)
  \/ FileUploadCall
  \/ \E r \in FileResponses : FileParsed(r[1], r[2])
  \/ FileFailed
  \/ Render

Spec == Init /\ [][Next]_vars

\* ------------------------------------------------- src/utils/audio.ts
\* The factor of line 27.
Scale == 32768
\* Values an Int16Array element distinguishes (line 24).
Int16Modulus == 65536
\* Values a Uint8Array element distinguishes (line 30).
ByteModulus == 256
\* Values a Base64 character distinguishes (btoa, line 14).
SextetModulus == 64
\* The Base64 padding character "=".
Pad == SextetModulus

\* A sample is a finite number n / SampleDenominator (1.0 is SampleDenominator,
\* the odd n are the samples whose product with Scale has a fraction of 1/2).
SampleDenominator == 2 * Scale
SampleValues ==
  {0, 1, -1, 3, -3, SampleDenominator - 2, SampleDenominator, -SampleDenominator,
   SampleDenominator + 2, -(SampleDenominator + 2), 2 * SampleDenominator}
\* The Float32Array buffers the audio callback may receive.
Buffers == UNION {[1..n -> SampleValues] : n \in 0..MaxSamples}

Mod(a, m) == ((a % m) + m) % m

\* The conversion to an integer drops the fraction (towards zero).
TruncDiv(a, b) == IF a >= 0 THEN a \div b ELSE -((-a) \div b)

\* A conversion that saturates at the ends of the 16-bit range.
ClampInt16(v) ==
  IF v > Int16Modulus \div 2 - 1 THEN Int16Modulus \div 2 - 1
  ELSE IF v < -(Int16Modulus \div 2) THEN -(Int16Modulus \div 2)
  ELSE v

\* Storing an integer in an Int16Array element: modulo 2^16, read as signed.
ToInt16(v) ==
  LET u == Mod(v, Int16Modulus)
  IN IF u >= Int16Modulus \div 2 THEN u - Int16Modulus ELSE u

\* Line 27: int16[i] = data[i] * 32768, for data[i] = n / SampleDenominator
\* (the product is n / (SampleDenominator / Scale)).
Int16Of(n) == ToInt16(TruncDiv(n, SampleDenominator \div Scale))

\* new Uint8Array(int16): one byte per element, instead of the buffer's bytes.
Uint8Copy(int16) == [k \in 1..Len(int16) |-> Mod(int16[k], ByteModulus)]

\* Line 30: new Uint8Array(int16.buffer), the bytes of the elements in the
\* byte order of the platform (little-endian), low byte first.
Uint8View(int16) ==
  [k \in 1..(2 * Len(int16)) |->
     LET u == Mod(int16[(k + 1) \div 2], Int16Modulus)
     IN IF k % 2 = 1 THEN u % ByteModulus ELSE u \div ByteModulus]

\* btoa of a binary string (line 14): three bytes give four characters, a
\* shorter last group is padded.
RECURSIVE btoa(_)
btoa(binary) ==
  IF Len(binary) = 0 THEN <<>>
  ELSE IF Len(binary) = 1
    THEN <<binary[1] \div 4, (binary[1] % 4) * 16, Pad, Pad>>
  ELSE IF Len(binary) = 2
    THEN <<binary[1] \div 4, (binary[1] % 4) * 16 + binary[2] \div 16,
           (binary[2] % 16) * 4, Pad>>
  ELSE <<binary[1] \div 4, (binary[1] % 4) * 16 + binary[2] \div 16,
         (binary[2] % 16) * 4 + binary[3] \div SextetModulus,
         binary[3] % SextetModulus>>
       \o btoa(SubSeq(binary, 4, Len(binary)))

\* encode, lines 8-15: the bytes become the characters of a binary string.
encode(bytes) == btoa([i \in 1..Len(bytes) |-> bytes[i]])

\* createBlob, lines 22-33.
createBlob(data) ==
  [data |-> encode(Uint8View([i \in 1..Len(data) |-> Int16Of(data[i])])),
   mimeType |-> "audio/pcm;rate=16000"]

appVars == <<uiVars, refVars, envVars, starts, stops, frames, fileCall,
             mounted, profile, obsVars>>

InitEncoder == AppInit /\ inputData \in Buffers /\ pcmBlob = NoBlob

\* The next buffer arrives at the audio callback
\* (src/unnamed/part_000, line 102).
DeliverBuffer ==
  /\ pcmBlob # NoBlob
  /\ inputData' \in Buffers
  /\ pcmBlob' = NoBlob
  /\ UNCHANGED appVars

\* The callback makes the blob (src/unnamed/part_000, line 103).
EncodeBuffer ==
  /\ pcmBlob = NoBlob
  /\ pcmBlob' = createBlob(inputData)
  /\ UNCHANGED <<inputData, appVars>>

NextEncoder == DeliverBuffer \/ EncodeBuffer

SpecEncoder == InitEncoder /\ [][NextEncoder]_vars


\* ================================================================= claims
HasNonWhitespace(t) == \E i \in 1..Len(t) : t[i] # " "

HandlesNull ==
  /\ sessionPromiseRef = 0 /\ streamRef = 0
  /\ audioContextRef = 0 /\ scriptProcessorRef = 0

\* obs follows one stopRecording call that began with no other stop under way
\* and an empty update queue, for as long as no other handler runs: obs.inp,
\* obs.out and obs.base are the accumulators and the history at the call.

\* C1 (manual-stop salvage): a user stop called with non-blank partial input T
\* and output O, once it has finished and React has evaluated the queued
\* update, has added exactly the one record {user: T, translation: O}.
C1_ManualStopSalvage ==
  (obs.ph = "done" /\ obs.by = "user" /\ HasNonWhitespace(obs.inp) /\ pending = <<>>)
    => history = Append(obs.base, HistoryRecord(obs.inp, obs.out))

\* C2 (every frame is sent): the continuation of a frame that was delivered
\* and runs while its episode is active calls sendRealtimeInput on the session.
C2_EveryActiveFrameIsSent ==
  [][\A i \in 1..MaxFrames :
       (FrameThen(i) /\ frames[i].live /\ EpisodeActive(frames[i].on))
         => frames[i].on \in sentOn']_vars

\* C3 (turn-complete commit rule): a message with turnComplete set queues the
\* record {user: input accumulator, translation: output accumulator} if and
\* only if one of them has a non-whitespace character, and in both cases
\* leaves both accumulators and both UI mirrors empty.
C3_TurnCompleteCommitRule ==
  [][\A s \in Ids, m \in MessageTexts :
       OnMessage(s, m[1], m[2], TRUE) =>
         LET fullInput == currentInputTranscriptionRef \o m[1]
             fullOutput == currentOutputTranscriptionRef \o m[2]
         IN /\ pending' =
                 IF HasNonWhitespace(fullInput) \/ HasNonWhitespace(fullOutput)
                   THEN pending \o <<ValueUpdate(fullInput, fullOutput)>>
                   ELSE pending
            /\ currentInputTranscriptionRef' = Empty
            /\ currentOutputTranscriptionRef' = Empty
            /\ userTranscript' = Empty
            /\ malayalamTranslation' = Empty]_vars

\* A turn has just been committed during a running episode: the queued record
\* carries the text, and accumulators and mirrors are empty again.
C3_Witness ==
  /\ isRecording /\ NoStopInFlight
  /\ pending = <<ValueUpdate(<<"a">>, Empty)>>
  /\ currentInputTranscriptionRef = Empty /\ userTranscript = Empty
  /\ \E s \in Ids : sess[s].st = "open"

\* C4 (stop idempotence): a stopRecording call made with no prior start, or
\* right after a stop that has finished with no other handler in between,
\* raises no error, and when it has finished every resource handle is null
\* and nothing was added to history.
C4_StopIdempotent ==
  obs.row =>
    /\ obs.ph # "abort"
    /\ obs.ph = "done" => (HandlesNull /\ pending = <<>> /\ history = obs.base)

\* C5 (one live session): never two sessions connected and not yet closed,
\* and a session is only created once every earlier one is closed.
C5_AtMostOneLiveSession ==
  /\ Cardinality({s \in Ids : sess[s].st = "open"}) <= 1
  /\ \A s, t \in Ids :
       (s < t /\ sess[s].st # "none" /\ sess[t].st # "none")
         => sess[s].st \in {"closed", "failed"}

\* C6 (out-of-order send): the continuation of a frame send that runs after a
\* stop has cleared the session handle changes neither the accumulators, the
\* UI mirrors, the error banner, the recording flags nor the history.
C6_LateFrameSendIsInert ==
  [][\A i \in 1..MaxFrames :
       ((FrameThen(i) \/ FrameCatch(i)) /\ frames[i].cleared)
         => UNCHANGED <<currentInputTranscriptionRef, currentOutputTranscriptionRef,
                        userTranscript, malayalamTranslation, error,
                        isRecording, isConnecting, history, pending>>]_vars

\* C7 (transport error): once the stop called by onerror or by a failed frame
\* send has finished and React has evaluated the queued update, the error is
\* set, isRecording is false, every resource handle is null, and a non-blank
\* partial transcript held at the call is in the history as one record.
C7_TransportErrorTeardown ==
  (obs.ph = "done" /\ obs.by \in {"onerror", "sendfail"} /\ pending = <<>>)
    => /\ error # "null"
       /\ ~isRecording
       /\ HandlesNull
       /\ (HasNonWhitespace(obs.inp) \/ HasNonWhitespace(obs.out))
            => history = Append(obs.base, HistoryRecord(obs.inp, obs.out))

\* Nothing is in flight: no suspended start, stop or upload, no continuation,
\* no queued update, no connection or context in transition, no session or
\* processor that could still call back.  Only the user can act.
Settled ==
  /\ starts = <<>> /\ NoStopInFlight /\ frames = <<>> /\ fileCall = "idle"
  /\ pending = <<>>
  /\ \A s \in Ids : /\ sess[s].st \notin {"connecting", "open"}
                    /\ ctx[s] # "closing"
                    /\ ~(proc[s] = "connected" /\ ctx[s] = "running")

Idle ==
  /\ ~isRecording /\ ~isConnecting /\ ~isProcessingFile
  /\ HandlesNull

\* C8 (failures return to idle): when a failure has been reported and nothing
\* is in flight any more, the system is idle: no flag is set and no stream,
\* audio graph or session handle is held.
C8_FailureReturnsToIdle == (error # "null" /\ Settled) => Idle

Opened(s) == sess[s].st \in {"open", "closed"}

\* C9 (no frame before open): sendRealtimeInput has only been called on
\* sessions whose onopen has run, and every frame the audio callback has
\* handed to a session's promise was delivered after that session's onopen
\* (and by a pipeline whose own session had opened).
C9_NoFrameBeforeOpen ==
  /\ \A s \in sentOn : Opened(s)
  /\ \A i \in 1..Len(frames) : Opened(frames[i].by) /\ Opened(frames[i].on)

\* C10 (file path): a parsed response queues the record {user: transcription,
\* translation: translation} and sets both mirrors if and only if one field has
\* a non-whitespace character; otherwise, and when the response cannot be
\* parsed, the error is set and nothing is queued for the history.
C10_FileCommitRule ==
  [][/\ \A r \in FileResponses :
          FileParsed(r[1], r[2]) =>
            IF HasNonWhitespace(r[1]) \/ HasNonWhitespace(r[2])
              THEN /\ pending' = Append(pending, ValueUpdate(r[1], r[2]))
                   /\ userTranscript' = r[1]
                   /\ malayalamTranslation' = r[2]
              ELSE /\ error' # "null"
                   /\ pending' = pending /\ history' = history
     /\ FileFailed => (error' # "null" /\ pending' = pending /\ history' = history)]_vars

\* C11 (stop commits only non-blank transcripts): once a stop has finished and
\* React has evaluated the queued update, the history has gained a record if
\* and only if an accumulator held a non-whitespace character at the call,
\* and both accumulators are empty either way.
C11_StopCommitsOnlyNonBlank ==
  (obs.ph = "done" /\ pending = <<>>)
    => /\ (history # obs.base)
            <=> (HasNonWhitespace(obs.inp) \/ HasNonWhitespace(obs.out))
       /\ currentInputTranscriptionRef = Empty
       /\ currentOutputTranscriptionRef = Empty

\* C12 (accumulators reset at episode boundaries): when startRecording begins
\* a new session both accumulators are empty, and right after a commit by a
\* turn-complete message or by stop both are empty.
C12_AccumulatorsResetAtBoundaries ==
  [][/\ \A i \in 1..MaxSessions :
          StartConnected(i) => /\ currentInputTranscriptionRef' = Empty
                               /\ currentOutputTranscriptionRef' = Empty
     /\ (Len(pending') > Len(pending) /\ fileCall' = fileCall)
          => /\ currentInputTranscriptionRef' = Empty
             /\ currentOutputTranscriptionRef' = Empty]_vars

\* C13 (microphone failure aborts startup): when getUserMedia fails the error
\* is set, isConnecting is reset to false, and the failed start neither sets
\* isRecording, nor creates a session or a stream, nor touches a resource
\* handle or the history.
C13_MicFailureAbortsStartup ==
  [][\A i \in 1..MaxSessions :
       StartMicDenied(i) =>
         /\ error' # "null"
         /\ isConnecting' = FALSE
         /\ isRecording' = isRecording
         /\ sess' = sess /\ stream' = stream /\ nextId' = nextId
         /\ UNCHANGED <<sessionPromiseRef, streamRef, audioContextRef,
                        scriptProcessorRef>>
         /\ history' = history /\ pending' = pending]_vars

\* The first start was refused the microphone: the error is shown, nothing is
\* recording or connecting, no session exists and every handle is null.
C13_Witness ==
  /\ error = "mic" /\ faults = 1 /\ nextId = 1 /\ starts = <<>>
  /\ ~isRecording /\ ~isConnecting /\ HandlesNull
  /\ \A s \in Ids : sess[s].st = "none"

IsPrefix(p, q) == Len(p) <= Len(q) /\ \A i \in 1..Len(p) : p[i] = q[i]

\* C14 (history is append-only): every step leaves the earlier history as a
\* prefix of the later one, and the records a render adds are the queued
\* commits, in the order they were queued.
C14_HistoryAppendOnly ==
  [][/\ IsPrefix(history, history')
     /\ history' # history =>
          /\ Len(history') = Len(history) + Len(pending)
          /\ \A i \in 1..Len(pending) :
               ~pending[i].lazy =>
                 history'[Len(history) + i]
                   = HistoryRecord(pending[i].user, pending[i].translation)]_vars

\* A record committed by a turn and a later one committed by a file upload
\* are in the history, in that order.
C14_Witness ==
  /\ Len(history) = 2 /\ pending = <<>>
  /\ history[1] = HistoryRecord(Empty, <<"a">>)
  /\ history[2] = HistoryRecord(<<"a">>, <<"a">>)

\* The bytes a Base64 text stands for (atob).
RECURSIVE atob(_)
atob(text) ==
  IF Len(text) = 0 THEN <<>>
  ELSE LET b1 == text[1] * 4 + text[2] \div 16
           b2 == (text[2] % 16) * 16 + text[3] \div 4
           b3 == (text[3] % 4) * SextetModulus + text[4]
       IN (IF text[3] = Pad THEN <<b1>>
           ELSE IF text[4] = Pad THEN <<b1, b2>>
           ELSE <<b1, b2, b3>>)
          \o atob(SubSeq(text, 5, Len(text)))

\* The integer part of sample n / SampleDenominator times 32768.
IntegerPart(n) ==
  CHOOSE k \in ((n \div 2) - 1)..((n \div 2) + 1) :
    IF n >= 0 THEN 2 * k <= n /\ n < 2 * k + 2
              ELSE n <= 2 * k /\ 2 * k - 2 < n

\* v reduced modulo 2^16 into the signed 16-bit range.
WrappedSample(v) ==
  CHOOSE w \in {v + k * Int16Modulus : k \in -2..2} :
    -(Int16Modulus \div 2) <= w /\ w < Int16Modulus \div 2

\* C15 (encoder length): the blob made from a buffer of N samples carries
\* exactly 2N PCM bytes, two per sample in sample order with the low byte
\* first, under the MIME type audio/pcm;rate=16000; an empty buffer gives an
\* empty payload.
C15_EncoderLength ==
  pcmBlob # NoBlob =>
    LET bytes == atob(pcmBlob.data) IN
    /\ pcmBlob.mimeType = "audio/pcm;rate=16000"
    /\ Len(bytes) = 2 * Len(inputData)
    /\ Len(pcmBlob.data) = 4 * ((2 * Len(inputData) + 2) \div 3)
    /\ \A i \in 1..Len(inputData) :
         bytes[2 * i - 1] + ByteModulus * bytes[2 * i]
           = Mod(IntegerPart(inputData[i]), Int16Modulus)
    /\ inputData = <<>> => pcmBlob.data = <<>>

\* A buffer of two different samples has been encoded.
C15_Witness ==
  /\ pcmBlob # NoBlob /\ Len(inputData) = 2 /\ inputData[1] # inputData[2]
  /\ Len(pcmBlob.data) = 8

\* The signed 16-bit number whose little-endian bytes are lo, hi.
SignedWord(lo, hi) ==
  IF hi >= ByteModulus \div 2 THEN lo + ByteModulus * hi - Int16Modulus
                              ELSE lo + ByteModulus * hi

\* C16 (encoder does not clamp): every sample s is encoded as the integer part
\* of s * 32768 reduced modulo 2^16 into the signed 16-bit range, so values
\* outside the range wrap: the full-scale sample 1.0 encodes as -32768.
C16_EncoderWraps ==
  pcmBlob # NoBlob =>
    LET bytes == atob(pcmBlob.data) IN
    \A i \in 1..Len(inputData) :
      LET word == SignedWord(bytes[2 * i - 1], bytes[2 * i]) IN
      /\ word = WrappedSample(IntegerPart(inputData[i]))
      /\ inputData[i] = SampleDenominator => word = -Scale

\* The full-scale sample 1.0 has been encoded.
C16_Witness ==
  /\ pcmBlob # NoBlob /\ inputData = <<SampleDenominator>>
  /\ atob(pcmBlob.data) = <<0, ByteModulus \div 2>>

\* A stopRecording invocation is suspended on the promise of session s.
StopAwaits(s) == \E k \in Slots : stops[k].pc = "sess" /\ stops[k].on = s

\* C17 (stop racing session open): when a session opens while a stop called
\* after the microphone was acquired is waiting for it, onopen raises no
\* error, and when that stop resumes and finishes (no other episode being
\* alive) no audio context or processor is held and the tracks are stopped.
C17_StopRacingOpen ==
  [][/\ \A s \in Ids, resolves \in BOOLEAN :
          (SessionOpen(s, resolves) /\ StopAwaits(s)) => ~OnOpenThrows
     /\ \A k \in Slots, eager \in BOOLEAN :
          (/\ StopAfterSession(k, eager)
           /\ sess[stops[k].on].st = "open"
           /\ \A t \in Ids \ {stops[k].on} : sess[t].st \in {"none", "closed", "failed"}
           /\ starts = <<>>
           /\ \A j \in Slots \ {k} : stops[j].pc = "free")
            => /\ audioContextRef' = 0 /\ scriptProcessorRef' = 0
               /\ \A t \in Ids : stream'[t] # "live"]_vars

\* Session s has been connected and is not closed.
Live(s) == sess[s].st \in {"connecting", "open"}

\* C18 (no session leak on overlap): the continuation of a stop that waited
\* for one session leaves the handle of a newer session alone, and the
\* handle is non-null whenever a session is live.
C18_NoSessionLeak ==
  [][/\ \A k \in Slots, eager \in BOOLEAN :
          (StopAfterSession(k, eager) /\ sessionPromiseRef \notin {0, stops[k].on})
            => sessionPromiseRef' = sessionPromiseRef
     /\ \A s \in Ids : Live(s)' => sessionPromiseRef' # 0]_vars

\* C19 (teardown steps are independent): a stopRecording call in which
\* audioContext.close() rejects still goes on to the session (it waits for
\* the session promise) or, with no session held, finishes with
\* sessionPromiseRef null and both accumulators committed and cleared.
C19_TeardownStepsIndependent ==
  [][\A by \in {"user", "unmount", "onerror", "sendfail"}, eager \in BOOLEAN :
       (StopCall(by, FALSE, eager) /\ StopOutcome(FALSE) = "abort")
         => \/ \E k \in Slots : stops'[k].pc = "sess" /\ stops[k].pc = "free"
            \/ /\ sessionPromiseRef' = 0
               /\ pending' = StopCommit(eager)
               /\ currentInputTranscriptionRef' = Empty
               /\ currentOutputTranscriptionRef' = Empty]_vars

====
